---- MODULE Spec2Model ----
(***************************************************************************)
(* A model of the two stateful cores of coverage-llm-gen:                  *)
(*                                                                         *)
(*   - TasksService (src/src/tasks/tasks.service.ts): the cron handler     *)
(*     that picks one queued file record, marks it processing, runs the    *)
(*     improvement pipeline and persists processed / error;                *)
(*   - SSEProvider (src/client/app/contexts/SSEContext.tsx): the event     *)
(*     hub that owns one EventSource, a listener registry and a reconnect  *)
(*     timer with exponential backoff.                                     *)
(*                                                                         *)
(* The two run in different processes and share no state, so each has a    *)
(* specification of its own (SpecTasks, SpecHub) that leaves the other's   *)
(* variables unchanged. SpecConn follows the hub's connection life cycle   *)
(* alone and further, FairSpecConn adds that pending timeouts come due,    *)
(* and SpecGuards applies the payload type guards of SSEContext.tsx to a   *)
(* bounded domain of decoded payloads.                                     *)
(***************************************************************************)
EXTENDS Integers, Sequences, FiniteSets, TLC

VARIABLES
    \* ---- TasksService -------------------------------------------------
    files,       \* the files table: row id -> [repoId, path, status]
    pc,          \* per cron firing: the await point the handler is at
    file,        \* per cron firing: the row findFirst returned (0: none)
    steps,       \* per cron firing: the pipeline steps started, in order
    result,      \* per cron firing: what handleGenerateImprovements gave
    ai,          \* per cron firing: what generateSuggestions returned
    written,     \* per cron firing: the statuses this firing has written
    uuid,        \* per cron firing: what crypto.randomUUID() gave (0: not yet)
    \* ---- SSEProvider --------------------------------------------------
    hub,                  \* "rendered" (effect not yet run), "active", "stopped"
    isConnected,          \* useState(false)
    lastEvent,            \* useState<SSEEvent | null>(null)
    connectionError,      \* useState<Error | null>(null)
    eventSourceRef,       \* the connection held (0: null)
    conns,                \* every EventSource created: id -> readyState
    listenersRef,         \* Map<SSEEventType, Set<EventListener>>
    reconnectTimeoutRef,  \* the id setTimeout last returned (0: undefined)
    timers,               \* the ids of the timeouts pending in the event loop
    timerCount,           \* how many timeouts were ever set
    reconnectAttemptsRef, \* useRef(0)
    backoffLog,           \* the delays logged since the last 'established' log
    delivery,             \* what the event handler that just ran did
    sseUrl,               \* the sseUrl prop: "valid" or "invalid" (does not parse)
    connectCalls,         \* how many times connect() was entered
    lastCall,             \* the registry call the task that just ran made
    \* ---- the type guards ----------------------------------------------
    decoded,     \* a decoded payload, as JSON.parse or a caller supplies it
    verdict      \* the guard last applied to it and the value it returned

tasksVars == <<files, pc, file, steps, result, ai, written, uuid>>

connVars == <<sseUrl, hub, isConnected, connectionError, eventSourceRef, conns,
              reconnectTimeoutRef, timers, timerCount, reconnectAttemptsRef,
              backoffLog, connectCalls>>

hubVars == <<connVars, lastEvent, listenersRef, delivery, lastCall>>

guardVars == <<decoded, verdict>>

vars == <<tasksVars, hubVars, guardVars>>

(***************************************************************************)
(*                              TasksService                               *)
(***************************************************************************)

\* Bounds of the model.
NumFiles == 2
MaxTicks == 2

FileIds == 1..NumFiles
Ticks == 1..MaxTicks

Paths == {"src/foo.ts", "src/bar.ts"}

Statuses == {"queued", "processing", "processed", "error"}

\* The pipeline steps of handleGenerateImprovements, in source order.
StepOrder == <<"a", "b", "c", "d", "e", "f", "g", "h", "i">>

\* .where(eq(files.status, 'queued')) with findFirst and no orderBy: the
\* rows the query may return. Which matching row comes first is the store's
\* choice (scan order, index used), so any queued row may; 0 when there is
\* none.
FindFirstQueued(tbl) ==
    IF \E i \in DOMAIN tbl : tbl[i].status = "queued"
    THEN {i \in DOMAIN tbl : tbl[i].status = "queued"}
    ELSE {0}

\* The rows an update ... where(eq(files.path, p)) matches.
WherePath(tbl, f) == {i \in DOMAIN tbl : tbl[i].path = tbl[f].path}

\* db.update(files).set({ status: s }).where(eq(files.path, file.path))
UpdateStatus(tbl, f, s) ==
    [i \in DOMAIN tbl |->
        IF i \in WherePath(tbl, f) THEN [tbl[i] EXCEPT !.status = s] ELSE tbl[i]]

\* What handleGenerateImprovements gave its caller: nothing yet, ok(),
\* err(msg) from step `at`, or a rejected promise (an exception thrown by
\* the awaited call of step `at`).
NoResult == [kind |-> "none", at |-> "", msg |-> ""]
Ok == [kind |-> "ok", at |-> "", msg |-> ""]
Err(step, m) == [kind |-> "err", at |-> step, msg |-> m]
Threw(step) == [kind |-> "threw", at |-> step, msg |-> ""]

\* What generateSuggestions may resolve to: revised test text, or nothing.
Responses == {"revised test", ""}

\* Without the `if (!response)` guard: every response is taken as usable.
FalsyNever(r) == FALSE

\* if (!response): JavaScript truthiness of a string.
Falsy(r) == r = ""

\* crypto.randomUUID(): a version-4 UUID with 122 random bits, taken never to
\* repeat. The code only embeds the identifier in names, so which value a
\* call returns does not matter beyond its being new: the call made by
\* firing t returns the identifier numbered t.
Uuids == 1..MaxTicks

RandomUUID(t) == t

\* path.join('./repos', `${repoName}-${uuid}`): the workspace directory, and
\* path.join('./repos', repoName): the checkout it is copied from.
NewPathShared(repoName, id) == <<repoName, 0>>

NewPath(repoName, id) == <<repoName, id>>

ExistingPath(repoName) == <<repoName, 0>>

\* `enhance/tests-${uuid}`
Branch(id) == <<"enhance/tests", id>>

NoPath == <<0, 0>>

NoBranch == <<"", 0>>

\* getRepoNameFromUrl(repo.url), for the repository of the row firing t
\* selected: one name per repository.
RepoName(t) == files[file[t]].repoId

\* What step s of firing t's run writes to and which branch it names:
\* c. fs.cp(existingPath, newPath); d. git checkout -b in newPath;
\* e. reads only; g. fs.writeFile under newPath; h. git add / commit in
\* newPath and git push of the branch; i. submitPR(newPath, filePath, uuid).
StepUses(t, s) ==
    LET newPath == NewPath(RepoName(t), uuid[t]) IN
    CASE s = "c" -> [path |-> newPath, branch |-> NoBranch, id |-> uuid[t]]
      [] s = "d" -> [path |-> newPath, branch |-> Branch(uuid[t]), id |-> uuid[t]]
      [] s = "g" -> [path |-> newPath, branch |-> NoBranch, id |-> uuid[t]]
      [] s = "h" -> [path |-> newPath, branch |-> Branch(uuid[t]), id |-> uuid[t]]
      [] s = "i" -> [path |-> newPath, branch |-> Branch(uuid[t]), id |-> uuid[t]]
      [] OTHER -> [path |-> NoPath, branch |-> NoBranch, id |-> 0]

\* The table at start-up: rows left by earlier runs of the service and rows
\* queued since. Row i belongs to repository i; two repositories may hold a
\* file at the same path. The code only compares paths for equality, so the
\* two path names are interchangeable: row 1's path is the one called
\* src/foo.ts.
InitTasks ==
    /\ files \in [FileIds -> [repoId : FileIds, path : Paths,
                              status : {"queued", "processed", "error"}]]
    /\ \A i \in FileIds : files[i].repoId = i
    /\ files[1].path = "src/foo.ts"
    /\ pc = [t \in Ticks |-> "idle"]
    /\ file = [t \in Ticks |-> 0]
    /\ steps = [t \in Ticks |-> <<>>]
    /\ result = [t \in Ticks |-> NoResult]
    /\ ai = [t \in Ticks |-> "none"]
    /\ written = [t \in Ticks |-> <<>>]
    /\ uuid = [t \in Ticks |-> 0]

\* @Cron fires: findFirst({ where: status = 'queued' }); no row: log, return.
CronFires(t) ==
    /\ pc[t] = "idle"
    /\ \E f \in FindFirstQueued(files) :
        /\ file' = [file EXCEPT ![t] = f]
        /\ pc' = [pc EXCEPT ![t] = IF f = 0 THEN "done" ELSE "mark"]
    /\ UNCHANGED <<hubVars, guardVars, uuid, files, steps, result, ai, written>>

\* update ... set status = 'processing', then handleGenerateImprovements is
\* entered and suspends on the repos query.
MarkProcessing(t) ==
    /\ pc[t] = "mark"
    /\ files' = UpdateStatus(files, file[t], "processing")
    /\ written' = [written EXCEPT ![t] = Append(@, "processing")]
    /\ steps' = [steps EXCEPT ![t] = Append(@, "a")]
    /\ pc' = [pc EXCEPT ![t] = "a"]
    /\ UNCHANGED <<hubVars, guardVars, uuid, file, result, ai>>

\* handleGenerateImprovements returns err(m) from step k: the caller logs and
\* goes on to persist the outcome.
ReturnErr(t, k, m) ==
    /\ result' = [result EXCEPT ![t] = Err(k, m)]
    /\ pc' = [pc EXCEPT ![t] = "final"]

\* The awaited call of step k rejects. Nothing catches it in
\* handleGenerateImprovements nor in handleGenerateImprovementsCron: the
\* handler's promise rejects and the lines after the await never run.
Reject(t, k) ==
    /\ result' = [result EXCEPT ![t] = Threw(k)]
    /\ pc' = [pc EXCEPT ![t] = "done"]

\* Step k resolved; the code up to the next await runs, which starts step n.
Proceed(t, n) ==
    /\ steps' = [steps EXCEPT ![t] = Append(@, n)]
    /\ pc' = [pc EXCEPT ![t] = n]

\* a. repos.findFirst(id = file.repoId) resolves; b. getRepoNameFromUrl (no
\* await in between); then the paths and the uuid are computed and c. fs.cp
\* is started.
ResolveRepo(t) ==
    /\ pc[t] = "a"
    /\ \E found \in BOOLEAN, nameOk \in BOOLEAN :
        \/ /\ ~found
           /\ ReturnErr(t, "a", "Repo not found")
           /\ UNCHANGED <<steps, uuid>>
        \/ /\ found /\ ~nameOk
           /\ ReturnErr(t, "b", "Repo name not found")
           /\ steps' = [steps EXCEPT ![t] = Append(@, "b")]
           /\ UNCHANGED uuid
        \/ /\ found /\ nameOk
           /\ uuid' = [uuid EXCEPT ![t] = RandomUUID(t)]
           /\ steps' = [steps EXCEPT ![t] = @ \o <<"b", "c">>]
           /\ pc' = [pc EXCEPT ![t] = "c"]
           /\ UNCHANGED result
    /\ UNCHANGED <<hubVars, guardVars, files, file, ai, written>>

\* c. await fs.cp(existingPath, newPath, { recursive: true })
CopyWorkspace(t) ==
    /\ pc[t] = "c"
    /\ \/ Proceed(t, "d") /\ UNCHANGED result
       \/ Reject(t, "c") /\ UNCHANGED steps
    /\ UNCHANGED <<hubVars, guardVars, uuid, files, file, ai, written>>

\* d. await execAsync(`cd ... && git checkout -b enhance/tests-${uuid}`)
CheckoutBranch(t) ==
    /\ pc[t] = "d"
    /\ \/ Proceed(t, "e") /\ UNCHANGED result
       \/ Reject(t, "d") /\ UNCHANGED steps
    /\ UNCHANGED <<hubVars, guardVars, uuid, files, file, ai, written>>

\* e. await fs.readFile of the test file: the handler then waits again, on
\* the read of the source file, and other firings run in between.
ReadTestFile(t) ==
    /\ pc[t] = "e"
    /\ \/ /\ pc' = [pc EXCEPT ![t] = "e2"]
          /\ UNCHANGED <<steps, result>>
       \/ Reject(t, "e") /\ UNCHANGED steps
    /\ UNCHANGED <<hubVars, guardVars, uuid, files, file, ai, written>>

\* e, second await: fs.readFile of the source file; then
\* f. generateSuggestions is called.
ReadSourceFile(t) ==
    /\ pc[t] = "e2"
    /\ \/ Proceed(t, "f") /\ UNCHANGED result
       \/ Reject(t, "e") /\ UNCHANGED steps
    /\ UNCHANGED <<hubVars, guardVars, uuid, files, file, ai, written>>

\* f. generateSuggestions resolves; if (!response) return err(...); else
\* g. fs.writeFile of the test file is started.
Generate(t) ==
    /\ pc[t] = "f"
    /\ \E response \in Responses :
        /\ ai' = [ai EXCEPT ![t] = response]
        /\ IF Falsy(response)
           THEN ReturnErr(t, "f", "no response returned") /\ UNCHANGED steps
           ELSE Proceed(t, "g") /\ UNCHANGED result
    /\ UNCHANGED <<hubVars, guardVars, uuid, files, file, written>>

\* g. await fs.writeFile(test file, response); then h. is started.
WriteTestFile(t) ==
    /\ pc[t] = "g"
    /\ \/ Proceed(t, "h") /\ UNCHANGED result
       \/ Reject(t, "g") /\ UNCHANGED steps
    /\ UNCHANGED <<hubVars, guardVars, uuid, files, file, ai, written>>

\* h. await execAsync(`git add . && git commit ... && git push ...`); then
\* i. submitPR is called.
CommitPush(t) ==
    /\ pc[t] = "h"
    /\ \/ Proceed(t, "i") /\ UNCHANGED result
       \/ Reject(t, "h") /\ UNCHANGED steps
    /\ UNCHANGED <<hubVars, guardVars, uuid, files, file, ai, written>>

\* i. submitPR resolves to a Result: isErr -> err('PR submission failed:
\* ...'), else ok().
SubmitPR(t) ==
    /\ pc[t] = "i"
    /\ \/ ReturnErr(t, "i", "PR submission failed")
       \/ /\ result' = [result EXCEPT ![t] = Ok]
          /\ pc' = [pc EXCEPT ![t] = "final"]
    /\ UNCHANGED <<hubVars, guardVars, uuid, files, file, steps, ai, written>>

\* Back in the cron handler: result.isErr() -> set status 'error', else set
\* status 'processed'.
FinalStatus(r) == IF r.kind = "err" THEN "error" ELSE "processed"

PersistOutcome(t) ==
    /\ pc[t] = "final"
    /\ files' = UpdateStatus(files, file[t], FinalStatus(result[t]))
    /\ written' = [written EXCEPT ![t] = Append(@, FinalStatus(result[t]))]
    /\ pc' = [pc EXCEPT ![t] = "done"]
    /\ UNCHANGED <<hubVars, guardVars, uuid, file, steps, result, ai>>

TasksNext ==
    \E t \in Ticks :
        \/ CronFires(t)
        \/ MarkProcessing(t)
        \/ ResolveRepo(t)
        \/ CopyWorkspace(t)
        \/ CheckoutBranch(t)
        \/ ReadTestFile(t)
        \/ ReadSourceFile(t)
        \/ Generate(t)
        \/ WriteTestFile(t)
        \/ CommitPush(t)
        \/ SubmitPR(t)
        \/ PersistOutcome(t)

(***************************************************************************)
(*                               SSEProvider                               *)
(***************************************************************************)

\* Bounds of the model: how many EventSource objects are created and how
\* many timeouts are set, in the full hub and in the connection-only
\* specification that follows the backoff sequence up to its cap.
MaxConns == 2
MaxTimers == 1
MaxBackoffConns == 3
MaxBackoffTimers == 8

\* const eventTypes: SSEEventType[]
EventTypes == {"task-progress", "task-started", "task-completed",
               "task-error", "heartbeat"}

\* The subscribers' callbacks (function identities) and the kinds they
\* subscribe to.
Listeners == {"L1", "L2"}
SubTypes == {"task-progress", "heartbeat"}

\* The kinds and the event.data strings the server sends.
SentTypes == EventTypes
WirePayloads == {"{\"taskId\":\"t1\"}", "{\"taskId\":\"t2\"}", "{\"taskId\":"}

\* JSON.parse(event.data): the decoded document, or a SyntaxError.
JSONParseLenient(s) == [ok |-> TRUE, value |-> [taskId |-> "t1"]]

JSONParse(s) ==
    CASE s = "{\"taskId\":\"t1\"}" -> [ok |-> TRUE, value |-> [taskId |-> "t1"]]
      [] s = "{\"taskId\":\"t2\"}" -> [ok |-> TRUE, value |-> [taskId |-> "t2"]]
      [] OTHER -> [ok |-> FALSE, value |-> [taskId |-> ""]]

\* lastEvent === null
NoEvent == [type |-> "null", data |-> [taskId |-> ""]]

\* ---- Map<SSEEventType, Set<EventListener>> ------------------------------
\* A Map is a function on the keys it holds. A Set is its entry list in
\* insertion order; Set.prototype.delete leaves a hole in the list, which a
\* running forEach steps over, and add appends. Between handler runs the
\* holes are dropped (Compact): they are observable only to a forEach in
\* progress.
Hole == "-"

EmptyMap == [k \in {} |-> <<>>]

MapSet(m, k, v) == [x \in DOMAIN m \cup {k} |-> IF x = k THEN v ELSE m[x]]

MapDelete(m, k) == [x \in DOMAIN m \ {k} |-> m[x]]

SetHas(s, l) == \E i \in 1..Len(s) : s[i] = l

\* Set.prototype.add without the identity check.
SetAddAgain(s, l) == Append(s, l)

SetAdd(s, l) == IF SetHas(s, l) THEN s ELSE Append(s, l)

SetDelete(s, l) == [i \in 1..Len(s) |-> IF s[i] = l THEN Hole ELSE s[i]]

SetSize(s) == Cardinality({i \in 1..Len(s) : s[i] # Hole})

IsEntry(l) == l # Hole

Compact(m) == [k \in DOMAIN m |-> SelectSeq(m[k], IsEntry)]

\* removeEventListener that keeps the emptied Set in the Map.
RemoveEventListenerKeepsEmpty(m, type, listener) ==
    IF type \in DOMAIN m
    THEN MapSet(m, type, SetDelete(m[type], listener))
    ELSE m

\* addEventListener(type, listener)
AddEventListener(m, type, listener) ==
    LET m1 == IF type \notin DOMAIN m THEN MapSet(m, type, <<>>) ELSE m
    IN  MapSet(m1, type, SetAdd(m1[type], listener))

\* removeEventListener(type, listener); the closure addEventListener returns
\* calls it with the type and listener it captured.
RemoveEventListener(m, type, listener) ==
    IF type \in DOMAIN m
    THEN LET s == SetDelete(m[type], listener)
         IN  IF SetSize(s) = 0 THEN MapDelete(m, type) ELSE MapSet(m, type, s)
    ELSE m

\* ---- what a listener does when it is called -----------------------------
\* A callback may subscribe or unsubscribe a listener (itself or another)
\* for the kind being delivered, and then it returns or throws.
NoOp == [op |-> "none", target |-> "", throws |-> FALSE]
Reactions ==
    [op : {"none"}, target : {""}, throws : BOOLEAN]
        \cup [op : {"add", "remove"}, target : Listeners, throws : BOOLEAN]

ApplyReaction(m, type, r) ==
    CASE r.op = "add" -> AddEventListener(m, type, r.target)
      [] r.op = "remove" -> RemoveEventListener(m, type, r.target)
      [] OTHER -> m

\* No try/catch around the call: the first throw ends the forEach.
ListenerThrowEscapesAlways == TRUE

\* try { listener(event) } catch (error) { console.error(...) }: a throw of
\* the listener never leaves the forEach callback.
ListenerThrowEscapes == FALSE

\* listeners.forEach(...) over the Set object fetched for event.type, from
\* entry i on: each entry that is not a hole is called; the Set is live, so
\* an entry deleted before its turn is not called and an entry added during
\* the loop is. `m` is the Map as the calls so far left it; when the Set was
\* emptied it was dropped from the Map and the loop has nothing left.
RECURSIVE ForEachListener(_, _, _, _, _)
ForEachListener(m, event, i, react, calls) ==
    IF event.type \notin DOMAIN m \/ i > Len(m[event.type])
    THEN [map |-> m, calls |-> calls, threw |-> FALSE]
    ELSE LET l == m[event.type][i] IN
         IF l = Hole
         THEN ForEachListener(m, event, i + 1, react, calls)
         ELSE LET m1 == ApplyReaction(m, event.type, react[l])
                  c1 == Append(calls, [listener |-> l, event |-> event,
                                       reaction |-> react[l]])
              IN  IF react[l].throws /\ ListenerThrowEscapes
                  THEN [map |-> m1, calls |-> c1, threw |-> TRUE]
                  ELSE ForEachListener(m1, event, i + 1, react, c1)

\* The loop run over a copy of the Set taken when it starts.
RECURSIVE ForEachCopy(_, _, _, _, _, _)
ForEachCopy(m, copy, event, i, react, calls) ==
    IF i > Len(copy)
    THEN [map |-> m, calls |-> calls, threw |-> FALSE]
    ELSE ForEachCopy(ApplyReaction(m, event.type, react[copy[i]]), copy, event,
                     i + 1, react,
                     Append(calls, [listener |-> copy[i], event |-> event,
                                    reaction |-> react[copy[i]]]))

NotifyListenersCopy(m, event, react) ==
    IF event.type \in DOMAIN m
    THEN ForEachCopy(m, m[event.type], event, 1, react, <<>>)
    ELSE [map |-> m, calls |-> <<>>, threw |-> FALSE]

\* The Set looked up under a fixed kind instead of event.type.
NotifyListenersFixedKind(m, event, react) ==
    IF "task-progress" \in DOMAIN m
    THEN ForEachCopy(m, m["task-progress"], event, 1,
                     [l \in Listeners |-> NoOp], <<>>)
    ELSE [map |-> m, calls |-> <<>>, threw |-> FALSE]

\* notifyListeners(event)
NotifyListeners(m, event, react) ==
    IF event.type \in DOMAIN m
    THEN ForEachListener(m, event, 1, react, <<>>)
    ELSE [map |-> m, calls |-> <<>>, threw |-> FALSE]

\* Math.min(1000 * Math.pow(2, attempts), 30000)
Min(a, b) == IF a <= b THEN a ELSE b

BackoffDelayUncapped(attempts) == 1000 * 2 ^ attempts

BackoffDelay(attempts) == Min(1000 * 2 ^ attempts, 30000)

\* No event handler has just run: `delivery` holds what the event handler did
\* from its return until the event loop takes its next task.
NoDelivery == [kind |-> "none"]

\* No subscriber has just called addEventListener / removeEventListener:
\* `lastCall` holds the call and the registry it found, until the event loop
\* takes its next task.
NoCall == [op |-> "none"]

Idle == delivery = NoDelivery /\ lastCall = NoCall

\* The state after the first render, before the effect runs.
InitHub ==
    /\ sseUrl \in {"valid", "invalid"}
    /\ hub = "rendered"
    /\ isConnected = FALSE
    /\ lastEvent = NoEvent
    /\ connectionError = "null"
    /\ eventSourceRef = 0
    /\ conns = <<>>
    /\ listenersRef = EmptyMap
    /\ reconnectTimeoutRef = 0
    /\ timers = {}
    /\ timerCount = 0
    /\ reconnectAttemptsRef = 0
    /\ backoffLog = <<>>
    /\ delivery = NoDelivery
    /\ connectCalls = 0
    /\ lastCall = NoCall

\* connect() not closing the connection held.
CloseHeldNot(cs, ref) == cs

\* connect(): close the connection held, then new EventSource(sseUrl), which
\* throws on a URL that does not parse (caught: setConnectionError) and
\* otherwise gives a connection in readyState CONNECTING that the ref then
\* holds.
CloseHeld(cs, ref) ==
    IF ref # 0 THEN [cs EXCEPT ![ref] = "closed"] ELSE cs

Connect(maxConns) ==
    /\ connectCalls' = connectCalls + 1
    /\ IF sseUrl = "valid"
       THEN /\ Len(conns) < maxConns
            /\ conns' = Append(CloseHeld(conns, eventSourceRef), "connecting")
            /\ eventSourceRef' = Len(conns) + 1
            /\ UNCHANGED connectionError
       ELSE /\ conns' = CloseHeld(conns, eventSourceRef)
            /\ connectionError' = "EventSource error"
            /\ UNCHANGED eventSourceRef

\* useEffect(() => { connect(); ... }, [connect])
Activate(maxConns) ==
    /\ Idle
    /\ hub = "rendered"
    /\ hub' = "active"
    /\ Connect(maxConns)
    /\ UNCHANGED <<tasksVars, guardVars, delivery, lastCall, sseUrl, isConnected, lastEvent, listenersRef, reconnectTimeoutRef,
                   timers, timerCount, reconnectAttemptsRef, backoffLog>>

\* eventSource.onopen, fired by a connection that is CONNECTING.
OnOpen(c) ==
    /\ Idle
    /\ conns[c] = "connecting"
    /\ conns' = [conns EXCEPT ![c] = "open"]
    /\ isConnected' = TRUE
    /\ connectionError' = "null"
    /\ reconnectAttemptsRef' = 0
    /\ backoffLog' = <<>>
    /\ UNCHANGED <<tasksVars, guardVars, delivery, lastCall, connectCalls, sseUrl, hub, lastEvent, eventSourceRef, listenersRef,
                   reconnectTimeoutRef, timers, timerCount>>

\* eventSource.onerror, fired by a connection that is not CLOSED: the browser
\* either retries by itself (readyState CONNECTING) or gives up (CLOSED).
OnError(c, fatal, maxTimers) ==
    /\ Idle
    /\ conns[c] # "closed"
    /\ timerCount < maxTimers
    /\ conns' = [conns EXCEPT ![c] = IF fatal THEN "closed" ELSE "connecting"]
    /\ isConnected' = FALSE
    /\ connectionError' = "SSE connection failed"
    /\ backoffLog' = Append(backoffLog, BackoffDelay(reconnectAttemptsRef))
    /\ reconnectAttemptsRef' = reconnectAttemptsRef + 1
    /\ timerCount' = timerCount + 1
    /\ timers' = timers \cup {timerCount + 1}
    /\ reconnectTimeoutRef' = timerCount + 1
    /\ UNCHANGED <<tasksVars, guardVars, delivery, lastCall, connectCalls, sseUrl, hub, lastEvent, eventSourceRef, listenersRef>>

\* The timeout coming due with the listeners kept on the connection that is
\* replaced, not in a ref.
TimerFiresDropsListeners(id, maxConns) ==
    /\ Idle
    /\ id \in timers
    /\ timers' = timers \ {id}
    /\ Connect(maxConns)
    /\ listenersRef' = EmptyMap
    /\ UNCHANGED <<tasksVars, guardVars, delivery, lastCall, sseUrl, hub,
                   isConnected, lastEvent, reconnectTimeoutRef, timerCount,
                   reconnectAttemptsRef, backoffLog>>

\* setTimeout(() => { connect(); }, backoffDelay) comes due.
TimerFires(id, maxConns) ==
    /\ Idle
    /\ id \in timers
    /\ timers' = timers \ {id}
    /\ Connect(maxConns)
    /\ UNCHANGED <<tasksVars, guardVars, delivery, lastCall, sseUrl, hub, isConnected, lastEvent, listenersRef,
                   reconnectTimeoutRef, timerCount, reconnectAttemptsRef,
                   backoffLog>>

\* The effect's cleanup.
Deactivate ==
    /\ Idle
    /\ hub = "active"
    /\ hub' = "stopped"
    /\ timers' = IF reconnectTimeoutRef # 0
                 THEN timers \ {reconnectTimeoutRef} ELSE timers
    /\ conns' = CloseHeld(conns, eventSourceRef)
    /\ eventSourceRef' = 0
    /\ isConnected' = FALSE
    /\ UNCHANGED <<tasksVars, guardVars, delivery, lastCall, connectCalls, sseUrl, lastEvent, connectionError, listenersRef,
                   reconnectTimeoutRef, timerCount, reconnectAttemptsRef,
                   backoffLog>>

\* A subscriber calls addEventListener(type, listener).
Subscribe(type, listener) ==
    /\ Idle
    /\ listenersRef' = AddEventListener(listenersRef, type, listener)
    /\ lastCall' = [op |-> "add", type |-> type, listener |-> listener,
                    before |-> listenersRef]
    /\ UNCHANGED <<tasksVars, guardVars, connVars, lastEvent, delivery>>

\* A subscriber calls removeEventListener(type, listener), or the closure
\* that addEventListener(type, listener) returned.
Unsubscribe(type, listener) ==
    /\ Idle
    /\ listenersRef' = Compact(RemoveEventListener(listenersRef, type, listener))
    /\ lastCall' = [op |-> "remove", type |-> type, listener |-> listener,
                    before |-> listenersRef]
    /\ UNCHANGED <<tasksVars, guardVars, connVars, lastEvent, delivery>>

\* What the subscribers' callbacks do during one delivery: a reaction for
\* each listener that can be called (those registered for the kind, and
\* those one of them subscribes); the others are not called, and neither is
\* any when the payload does not parse.
Registered(m, type) ==
    IF type \in DOMAIN m THEN {m[type][i] : i \in 1..Len(m[type])} ELSE {}

Behaviours(type, raw) ==
    IF ~JSONParse(raw).ok \/ type \notin DOMAIN listenersRef
    THEN {[l \in Listeners |-> NoOp]}
    ELSE {r \in [Listeners -> Reactions] :
            \A l \in Listeners \ Registered(listenersRef, type) :
                r[l] = NoOp \/ \E k \in Registered(listenersRef, type) :
                                  r[k].op = "add" /\ r[k].target = l}

\* What the handler found when it was entered.
Before ==
    [listeners |-> listenersRef, lastEvent |-> lastEvent,
     isConnected |-> isConnected, connectionError |-> connectionError,
     attempts |-> reconnectAttemptsRef, timeoutRef |-> reconnectTimeoutRef,
     timers |-> timers]

\* An open connection dispatches an event of one of the five kinds to the
\* handler connect() attached for it: JSON.parse, setLastEvent,
\* notifyListeners, all inside one try whose catch only logs.
OnMessage(c, type, raw, react) ==
    /\ Idle
    /\ conns[c] = "open"
    /\ LET parsed == JSONParse(raw)
           sseEvent == [type |-> type, data |-> parsed.value]
           n == NotifyListeners(listenersRef, sseEvent, react)
       IN  IF parsed.ok
           THEN /\ lastEvent' = sseEvent
                /\ listenersRef' = Compact(n.map)
                /\ delivery' = [kind |-> "delivered", type |-> type,
                                raw |-> raw, before |-> Before,
                                calls |-> n.calls, escaped |-> FALSE]
           ELSE /\ delivery' = [kind |-> "dropped", type |-> type,
                                raw |-> raw, before |-> Before,
                                calls |-> <<>>, escaped |-> FALSE]
                /\ UNCHANGED <<lastEvent, listenersRef>>
    /\ UNCHANGED <<tasksVars, guardVars, connVars, lastCall>>

\* The server sends an event of some kind, with some payload, on an open
\* connection, and the subscribers' callbacks behave in some way.
ServerSends ==
    /\ Idle
    /\ \E c \in 1..Len(conns) :
        /\ conns[c] = "open"
        /\ \E type \in SentTypes, raw \in WirePayloads :
              \E react \in Behaviours(type, raw) : OnMessage(c, type, raw, react)

\* The handler has returned; the event loop goes on to its next task.
HandlerReturns ==
    /\ ~Idle
    /\ delivery' = NoDelivery
    /\ lastCall' = NoCall
    /\ UNCHANGED <<tasksVars, guardVars, connVars, lastEvent, listenersRef>>

ConnNext(maxConns, maxTimers) ==
    \/ Activate(maxConns)
    \/ \E c \in 1..Len(conns) : OnOpen(c)
    \/ \E c \in 1..Len(conns), fatal \in BOOLEAN : OnError(c, fatal, maxTimers)
    \/ \E id \in timers : TimerFires(id, maxConns)
    \/ Deactivate

HubNext ==
    \/ ConnNext(MaxConns, MaxTimers)
    \/ \E type \in SubTypes, listener \in Listeners : Subscribe(type, listener)
    \/ \E type \in SubTypes, listener \in Listeners : Unsubscribe(type, listener)
    \/ ServerSends
    \/ HandlerReturns

(***************************************************************************)
(*                             The type guards                             *)
(***************************************************************************)

\* JavaScript values as they reach the guards. A primitive is written as a
\* string: "undefined", "null", "true", "false", "num:<n>", "str:<chars>".
\* A payload is a record: `self` is "object" for an object and the primitive
\* otherwise; the other fields are the properties the guards read (absent:
\* "undefined"); `metadata` is "object" when it is an object, whose `error`
\* property is then the field `error`.
Falsies == {"undefined", "null", "false", "num:0", "str:"}

Truthy(v) == v \notin Falsies

\* typeof v
TypeOf(v) ==
    CASE v = "undefined" -> "undefined"
      [] v \in {"null", "object"} -> "object"
      [] v \in {"true", "false"} -> "boolean"
      [] v \in {"num:0", "num:7"} -> "number"
      [] OTHER -> "string"

\* a && b
And(a, b) == IF Truthy(a) THEN b ELSE a

\* a === b and a !== b, on primitives
StrictEq(a, b) == IF a = b THEN "true" ELSE "false"

StrictNe(a, b) == IF a # b THEN "true" ELSE "false"

\* data.<name>: undefined on a primitive that is not an object
Prop(data, name) == IF data.self = "object" THEN data[name] ELSE "undefined"

\* data.metadata?.error
MetadataError(data) ==
    IF Prop(data, "metadata") = "object" THEN data.error ELSE "undefined"

\* enum TaskEventType
COMPLETE == "str:complete"

ERROR == "str:error"

StringProps == {"str:x", "num:7", "undefined"}
EventTypeProps == {COMPLETE, ERROR, "str:setup-repo", "null", "undefined"}
MetadataProps == {"object", "null", "undefined"}
ErrorProps == {"str:boom", "str:", "null", "undefined"}
Primitives == {"undefined", "null", "false", "true", "num:0", "num:7",
               "str:", "str:x"}

Absent ==
    [taskId |-> "undefined", repoId |-> "undefined", filePath |-> "undefined",
     repoName |-> "undefined", eventType |-> "undefined",
     message |-> "undefined", metadata |-> "undefined", error |-> "undefined"]

Primitive(v) == [self |-> v] @@ Absent

DecodedPayloads ==
    {Primitive(v) : v \in Primitives}
    \cup {x \in [self : {"object"}, taskId : StringProps, repoId : StringProps,
                 filePath : StringProps, repoName : StringProps,
                 eventType : EventTypeProps, message : StringProps,
                 metadata : MetadataProps, error : ErrorProps] :
            x.metadata # "object" => x.error = "undefined"}

\* isTaskProgressEvent(data)
IsTaskProgressEvent(data) ==
    And(data.self,
    And(StrictEq(TypeOf(Prop(data, "taskId")), "string"),
    And(StrictEq(TypeOf(Prop(data, "repoId")), "string"),
    And(StrictEq(TypeOf(Prop(data, "filePath")), "string"),
    And(StrictEq(TypeOf(Prop(data, "repoName")), "string"),
    And(StrictNe(Prop(data, "eventType"), "undefined"),
        StrictEq(TypeOf(Prop(data, "message")), "string")))))))

\* isTaskCompletedEvent(data)
IsTaskCompletedEvent(data) ==
    And(IsTaskProgressEvent(data), StrictEq(Prop(data, "eventType"), COMPLETE))

\* isTaskErrorEvent(data)
IsTaskErrorEvent(data) ==
    And(IsTaskProgressEvent(data),
    And(StrictEq(Prop(data, "eventType"), ERROR),
        StrictNe(MetadataError(data), "undefined")))

NoVerdict == [guard |-> "none", value |-> "undefined"]

\* A caller applies one of the guards to the payload.
CallIsTaskProgressEvent ==
    /\ verdict' = [guard |-> "isTaskProgressEvent",
                   value |-> IsTaskProgressEvent(decoded)]
    /\ UNCHANGED <<tasksVars, hubVars, decoded>>

CallIsTaskCompletedEvent ==
    /\ verdict' = [guard |-> "isTaskCompletedEvent",
                   value |-> IsTaskCompletedEvent(decoded)]
    /\ UNCHANGED <<tasksVars, hubVars, decoded>>

CallIsTaskErrorEvent ==
    /\ verdict' = [guard |-> "isTaskErrorEvent",
                   value |-> IsTaskErrorEvent(decoded)]
    /\ UNCHANGED <<tasksVars, hubVars, decoded>>

GuardsNext ==
    \/ CallIsTaskProgressEvent
    \/ CallIsTaskCompletedEvent
    \/ CallIsTaskErrorEvent

(***************************************************************************)
(*                             Specifications                              *)
(***************************************************************************)

\* The table the hub's specifications leave untouched.
QuietTasks ==
    /\ files = [i \in FileIds |->
                   [repoId |-> i, path |-> "src/foo.ts", status |-> "queued"]]
    /\ pc = [t \in Ticks |-> "idle"]
    /\ file = [t \in Ticks |-> 0]
    /\ steps = [t \in Ticks |-> <<>>]
    /\ result = [t \in Ticks |-> NoResult]
    /\ ai = [t \in Ticks |-> "none"]
    /\ written = [t \in Ticks |-> <<>>]
    /\ uuid = [t \in Ticks |-> 0]

\* No payload under test.
QuietGuards == decoded = Primitive("undefined") /\ verdict = NoVerdict

\* The cron handler over every table, with overlapping firings; the hub at
\* rest.
InitSpecTasks == InitTasks /\ InitHub /\ sseUrl = "valid" /\ QuietGuards

SpecTasks == InitSpecTasks /\ [][TasksNext]_vars

\* The hub with its subscribers and the server's events.
InitSpecHub == InitHub /\ QuietTasks /\ QuietGuards

SpecHub == InitSpecHub /\ [][HubNext]_vars

\* The hub's connection life cycle alone, followed further.
BackoffNext == ConnNext(MaxBackoffConns, MaxBackoffTimers)

SpecConn == InitSpecHub /\ [][BackoffNext]_vars

\* The same, with every timeout that stays pending coming due in the end.
FairSpecConn ==
    SpecConn /\ WF_vars(\E id \in timers : TimerFires(id, MaxBackoffConns))

\* The guards applied to every payload of the bounded domain.
InitSpecGuards ==
    /\ decoded \in DecodedPayloads
    /\ verdict = NoVerdict
    /\ InitHub /\ sseUrl = "valid"
    /\ QuietTasks

SpecGuards == InitSpecGuards /\ [][GuardsNext]_vars

(***************************************************************************)
(*                        Claims about TasksService                        *)
(***************************************************************************)

Last(q) == q[Len(q)]

\* The status changes the data model allows.
Forward == {<<"queued", "processing">>, <<"processing", "processed">>,
            <<"processing", "error">>}

\* C1: every change of a record's status is queued->processing,
\* processing->processed or processing->error: never backward, never
\* skipping processing.
C1_StatusOnlyForward ==
    [][\A i \in FileIds :
          files'[i].status # files[i].status
              => <<files[i].status, files'[i].status>> \in Forward]_vars

\* C2: a step of a cron firing writes the status of no record but the one it
\* selected (and of none at all when it found no queued record): exactly one
\* record moves to processing per firing.
C2_OnlySelectedWritten ==
    [][\A t \in Ticks :
          pc'[t] # pc[t]
              => /\ {i \in FileIds : files'[i] # files[i]} \subseteq {file'[t]}
                 /\ (pc[t] = "mark" /\ files[file[t]].status = "queued"
                        => files'[file[t]].status = "processing")]_vars

\* C3: a firing that selected a record and has finished persisted error when
\* its pipeline run failed and processed when it succeeded, so its record is
\* not left in processing.
C3_FinishedRunPersisted ==
    \A t \in Ticks :
        pc[t] = "done" /\ file[t] # 0
            => /\ result[t].kind = "ok" => Last(written[t]) = "processed"
               /\ result[t].kind # "ok" => Last(written[t]) = "error"

\* C4: the steps run in the order a..i; once a step has failed no later step
\* is started; and when the AI adapter returned nothing the test file is not
\* written, nothing is committed or pushed, no PR is submitted and the status
\* persisted is error.
IsPrefix(p, q) == Len(p) <= Len(q) /\ p = SubSeq(q, 1, Len(p))

StepsOf(t) == {steps[t][k] : k \in 1..Len(steps[t])}

C4_OrderedFailFast ==
    \A t \in Ticks :
        /\ IsPrefix(steps[t], StepOrder)
        /\ result[t].kind \in {"err", "threw"} => Last(steps[t]) = result[t].at
        /\ ai[t] = ""
            => /\ StepsOf(t) \cap {"g", "h", "i"} = {}
               /\ result[t].kind = "err"
               /\ pc[t] = "done" => /\ Last(written[t]) = "error"
                                    /\ written[t] = <<"processing", "error">>

\* C4's case: a run whose generation step returned nothing has finished.
C4_Witness ==
    \E t \in Ticks : pc[t] = "done" /\ ai[t] = "" /\ Last(steps[t]) = "f"

\* C18: every run, also one overlapping another run (for the same record
\* or not), works in one workspace and on one branch, both named with the
\* identifier the run drew, which no other run has: every step of the run
\* that touches a workspace or names a branch uses these; no two runs share
\* a workspace or a branch, and none works in the checkout the workspaces
\* are copied from.
C18_OwnWorkspace ==
    /\ \A t \in Ticks : \A k \in 1..Len(steps[t]) :
          steps[t][k] \in {"c", "d", "g", "h", "i"} =>
              LET use == StepUses(t, steps[t][k])
              IN  /\ uuid[t] \in Uuids
                  /\ use.id = uuid[t]
                  /\ use.path = <<RepoName(t), uuid[t]>>
                  /\ use.branch \in {NoBranch, <<"enhance/tests", uuid[t]>>}
                  /\ \A r \in FileIds : use.path # ExistingPath(r)
    /\ \A t, u \in Ticks :
          t < u /\ uuid[t] # 0 /\ uuid[u] # 0
              => /\ uuid[t] # uuid[u]
                 /\ StepUses(t, "c").path # StepUses(u, "c").path
                 /\ StepUses(t, "d").branch # StepUses(u, "d").branch

\* C18's case: two firings selected the same record and both runs are
\* about to commit and push what they wrote.
C18_Witness ==
    \E t, u \in Ticks :
        /\ t # u
        /\ file[t] # 0 /\ file[t] = file[u]
        /\ pc[t] = "h" /\ pc[u] = "h"

\* C19: a record's status becomes processed only when a firing that
\* selected this record persists the outcome of a run that went through
\* every step and returned ok, and becomes error only when a firing that
\* selected this record persists a run that returned err.
C19_OutcomeOfOwnRun ==
    [][\A i \in FileIds :
          /\ files'[i].status # files[i].status
          /\ files'[i].status \in {"processed", "error"}
          => \E t \in Ticks :
                /\ pc[t] = "final" /\ pc'[t] = "done"
                /\ file[t] = i
                /\ files'[i].status = "processed"
                      => result[t].kind = "ok" /\ steps[t] = StepOrder
                /\ files'[i].status = "error" => result[t].kind = "err"]_vars

(***************************************************************************)
(*                        Claims about SSEProvider                         *)
(***************************************************************************)

\* The delays the design prescribes for the n-th consecutive failure.
ExpectedDelay(n) ==
    IF n < 5 THEN <<1000, 2000, 4000, 8000, 16000>>[n + 1] ELSE 30000

\* C5: the delays scheduled by consecutive transport errors since the last
\* successful open (or since the start) are 1000, 2000, 4000, 8000, 16000,
\* 30000, 30000, ...; an open resets the attempt counter, so the counter
\* always equals the number of errors since the last open and the first
\* error after an open schedules 1000 ms again.
C5_BackoffSequence ==
    /\ \A i \in 1..Len(backoffLog) : backoffLog[i] = ExpectedDelay(i - 1)
    /\ reconnectAttemptsRef = Len(backoffLog)

\* C5's case: errors, an open, then seven errors in a row, the last two at
\* the cap.
C5_Witness ==
    /\ Len(backoffLog) = 7
    /\ timerCount > Len(backoffLog)
    /\ backoffLog[6] = 30000 /\ backoffLog[7] = 30000

\* ---- the delivery that just ran, read back ------------------------------
Delivered == delivery.kind = "delivered"

\* The event the handler built from what arrived.
DeliveredEvent ==
    [type |-> delivery.type, data |-> JSONParse(delivery.raw).value]

\* The listeners registered for the kind when the event arrived, in
\* registration order.
RegisteredBefore ==
    IF delivery.type \in DOMAIN delivery.before.listeners
    THEN delivery.before.listeners[delivery.type]
    ELSE <<>>

Range(q) == {q[i] : i \in 1..Len(q)}

\* The listeners called, in call order.
Called == [i \in 1..Len(delivery.calls) |-> delivery.calls[i].listener]

\* The listeners some called listener unsubscribed from (subscribed to) the
\* kind while the event was being delivered.
RemovedDuring ==
    {delivery.calls[i].reaction.target :
        i \in {j \in 1..Len(delivery.calls) :
                  delivery.calls[j].reaction.op = "remove"}}

AddedDuring ==
    {delivery.calls[i].reaction.target :
        i \in {j \in 1..Len(delivery.calls) :
                  delivery.calls[j].reaction.op = "add"}}

\* Who is subscribed to the kind after the first n calls of the delivery, by
\* the subscribe / unsubscribe calls made so far.
RECURSIVE SubscribedAfter(_)
SubscribedAfter(n) ==
    IF n = 0 THEN Range(RegisteredBefore)
    ELSE LET r == delivery.calls[n].reaction IN
         CASE r.op = "add" -> SubscribedAfter(n - 1) \cup {r.target}
           [] r.op = "remove" -> SubscribedAfter(n - 1) \ {r.target}
           [] OTHER -> SubscribedAfter(n - 1)

\* Every listener registered at arrival that nobody unsubscribed during the
\* delivery is called exactly once, these in registration order.
StableCalledOnceInOrder ==
    LET Stable(l) == l \in Range(RegisteredBefore) \ RemovedDuring
    IN  SelectSeq(Called, Stable) = SelectSeq(RegisteredBefore, Stable)

\* How often listener l was called.
TimesCalled(l) == Cardinality({i \in 1..Len(Called) : Called[i] = l})

\* The listeners that were registered at arrival, but only for other kinds.
OnlyOtherKinds ==
    UNION {Registered(delivery.before.listeners, k) :
             k \in EventTypes \ {delivery.type}}
        \ Range(RegisteredBefore)

\* C6 as stated: when a well-formed event of kind K arrives, every listener
\* registered for K at that moment is called exactly once with {type: K,
\* data: X}, in registration order, lastEvent is that event, and no
\* listener registered only for another kind is called.
C6_AllRegisteredAtArrival ==
    Delivered =>
        /\ \A l \in Range(RegisteredBefore) : TimesCalled(l) = 1
        /\ LET AtArrival(l) == l \in Range(RegisteredBefore)
           IN  SelectSeq(Called, AtArrival) = RegisteredBefore
        /\ Range(Called) \cap OnlyOtherKinds = {}
        /\ \A i \in 1..Len(delivery.calls) :
              delivery.calls[i].event = DeliveredEvent
        /\ lastEvent = DeliveredEvent

\* C6 amended: lastEvent becomes the event; every call passes {type: K,
\* data: X}; every listener registered for K at arrival that no listener
\* unsubscribes during the delivery is called exactly once, these in
\* registration order; and every listener called was registered for K at
\* arrival or subscribed to K during the delivery, so one registered only
\* for another kind is not called.
C6_DeliveryToRegistered ==
    Delivered =>
        /\ lastEvent = DeliveredEvent
        /\ \A i \in 1..Len(delivery.calls) :
              delivery.calls[i].event = DeliveredEvent
        /\ StableCalledOnceInOrder
        /\ Range(Called) \subseteq Range(RegisteredBefore) \cup AddedDuring
        /\ RemovedDuring = {} /\ AddedDuring \subseteq Range(RegisteredBefore)
              => Called = RegisteredBefore

\* C6's case: an event delivered to two listeners of its kind while another
\* kind has listeners too.
C6_Witness ==
    /\ Delivered
    /\ Len(RegisteredBefore) = 2
    /\ Called = RegisteredBefore
    /\ \E k \in DOMAIN delivery.before.listeners : k # delivery.type

\* C7: a listener that is called is subscribed to the kind at the time of
\* the call: one unsubscribed before the event arrived, or unsubscribed by a
\* listener called earlier in the same delivery, is not called unless it was
\* subscribed again.
C7_NoCallAfterUnsubscribe ==
    Delivered =>
        \A i \in 1..Len(delivery.calls) :
            delivery.calls[i].listener \in SubscribedAfter(i - 1)

\* C7's case: on a replacement connection, the first listener called
\* unsubscribed the second, which was registered at arrival, and the second
\* was not called.
C7_Witness ==
    /\ Delivered
    /\ Len(conns) > 1
    /\ Len(RegisteredBefore) = 2
    /\ Len(delivery.calls) = 1
    /\ delivery.calls[1].reaction = [op |-> "remove",
                                      target |-> RegisteredBefore[2],
                                      throws |-> FALSE]

\* The payloads that are not JSON.
MalformedPayloads == {"{\"taskId\":"}

\* C8: an event whose payload does not parse calls no listener and leaves
\* lastEvent, isConnected, connectionError, the attempt counter, the timer
\* and the registry as they were; the handler returns normally.
C8_MalformedDropped ==
    delivery.kind # "none" /\ delivery.raw \in MalformedPayloads =>
        /\ delivery.kind = "dropped"
        /\ delivery.calls = <<>>
        /\ ~delivery.escaped
        /\ lastEvent = delivery.before.lastEvent
        /\ isConnected = delivery.before.isConnected
        /\ connectionError = delivery.before.connectionError
        /\ reconnectAttemptsRef = delivery.before.attempts
        /\ reconnectTimeoutRef = delivery.before.timeoutRef
        /\ timers = delivery.before.timers
        /\ listenersRef = delivery.before.listeners

\* C8's case: a malformed payload arrived for a kind with two listeners
\* after an earlier event had set lastEvent.
C8_Witness ==
    /\ delivery.kind = "dropped"
    /\ Len(RegisteredBefore) = 2
    /\ lastEvent # NoEvent

SomeListenerThrew ==
    \E i \in 1..Len(delivery.calls) : delivery.calls[i].reaction.throws

\* The listeners that threw during the delivery.
Throwers ==
    {delivery.calls[i].listener :
        i \in {j \in 1..Len(delivery.calls) :
                  delivery.calls[j].reaction.throws}}

\* C9 as stated: when a listener throws during a delivery, every other
\* listener registered for the kind at arrival is called exactly once, and
\* isConnected, connectionError and the attempt counter are as before.
C9_AllOthersStillCalled ==
    Delivered /\ SomeListenerThrew =>
        /\ \A l \in Range(RegisteredBefore) \ Throwers : TimesCalled(l) = 1
        /\ ~delivery.escaped
        /\ isConnected = delivery.before.isConnected
        /\ connectionError = delivery.before.connectionError
        /\ reconnectAttemptsRef = delivery.before.attempts

\* C9 amended: when a listener throws during a delivery, every listener
\* registered at arrival and not unsubscribed during the delivery is still
\* called exactly once, nothing escapes the handler, isConnected,
\* connectionError and the attempt counter are as before, and the registry
\* is what the subscribe / unsubscribe calls made of it: the listener that
\* threw stays registered for later events.
C9_ThrowContained ==
    Delivered /\ SomeListenerThrew =>
        /\ StableCalledOnceInOrder
        /\ \A l \in Range(RegisteredBefore) \ RemovedDuring : TimesCalled(l) = 1
        /\ ~delivery.escaped
        /\ isConnected = delivery.before.isConnected
        /\ connectionError = delivery.before.connectionError
        /\ reconnectAttemptsRef = delivery.before.attempts
        /\ Registered(listenersRef, delivery.type)
              = SubscribedAfter(Len(delivery.calls))
        /\ \A k \in EventTypes \ {delivery.type} :
              Registered(listenersRef, k)
                  = Registered(delivery.before.listeners, k)

\* C9's case: the first of two listeners threw and the second was called.
C9_Witness ==
    /\ Delivered
    /\ Len(delivery.calls) = 2
    /\ delivery.calls[1].reaction.throws
    /\ Called = RegisteredBefore

\* C10: once the hub is deactivated no reconnect timer is pending and no
\* connection is live (so connect() is not invoked again).
C10_StoppedHubIsQuiet ==
    hub = "stopped" =>
        /\ timers = {}
        /\ \A c \in 1..Len(conns) : conns[c] = "closed"

\* C12: at every moment at most one reconnect timer is pending, and it is
\* the one reconnectTimeoutRef holds.
C12_AtMostOnePendingTimer ==
    /\ Cardinality(timers) <= 1
    /\ timers \subseteq {reconnectTimeoutRef}

\* A failure is outstanding: a transport error has scheduled its reconnect,
\* or new EventSource(sseUrl) threw inside connect().
FailureOutstanding ==
    timers # {} \/ connectionError = "EventSource error"

\* The model follows the hub no further than its last EventSource.
Horizon == Len(conns) >= MaxBackoffConns

\* C13: while the hub is active, after every connection failure (a
\* transport error, or a failure to create the connection inside connect())
\* connect() is eventually entered again, unless the hub is deactivated.
C13_FailureLeadsToConnect ==
    \A n \in 0..(MaxBackoffConns + 1) :
        [](hub = "active" /\ FailureOutstanding /\ connectCalls = n /\ ~Horizon
              => <>(connectCalls > n \/ hub = "stopped"))

\* ---- the registry call that just ran, read back -------------------------
\* The listeners of kind k in map m, in registration order.
Entries(m, k) == IF k \in DOMAIN m THEN m[k] ELSE <<>>

\* The kinds other than the one the call named are as the call found them.
OtherKindsKept ==
    \A k \in EventTypes \ {lastCall.type} :
        Entries(listenersRef, k) = Entries(lastCall.before, k)

\* C14: addEventListener(K, L) with L already registered for K changes
\* nothing, and otherwise appends L to K's listeners, so L is registered
\* once; removeEventListener(K, L) (the closure's body) takes exactly L out
\* of K's listeners; both leave the other listeners of K and every other
\* kind as they were.
C14_AddIdempotentRemoveExact ==
    /\ lastCall.op = "add" =>
          LET old == Entries(lastCall.before, lastCall.type)
          IN  /\ Entries(listenersRef, lastCall.type)
                    = IF lastCall.listener \in Range(old)
                      THEN old ELSE Append(old, lastCall.listener)
              /\ OtherKindsKept
    /\ lastCall.op = "remove" =>
          LET Others(l) == l # lastCall.listener
          IN  /\ Entries(listenersRef, lastCall.type)
                    = SelectSeq(Entries(lastCall.before, lastCall.type), Others)
              /\ OtherKindsKept
    /\ \A k \in DOMAIN listenersRef :
          Cardinality(Range(listenersRef[k])) = Len(listenersRef[k])

\* C14's case: a listener registered for two kinds, beside another listener,
\* is registered again for one of them.
C14_Witness ==
    /\ lastCall.op = "add"
    /\ lastCall.listener \in Range(Entries(lastCall.before, lastCall.type))
    /\ Len(Entries(lastCall.before, lastCall.type)) = 2
    /\ \E k \in DOMAIN lastCall.before :
          k # lastCall.type /\ lastCall.listener \in Range(lastCall.before[k])

\* C15: the registry holds no kind with an empty listener set.
C15_NoEmptyEntry ==
    \A k \in DOMAIN listenersRef : SetSize(listenersRef[k]) > 0

\* C15's case: the only listener of a kind was removed and the kind is gone
\* from the registry, while another kind stays.
C15_Witness ==
    /\ lastCall.op = "remove"
    /\ Entries(lastCall.before, lastCall.type) = <<lastCall.listener>>
    /\ lastCall.type \notin DOMAIN listenersRef
    /\ listenersRef # EmptyMap

\* C16: a step of the connection life cycle (connect(), an open, a transport
\* error, a reconnect timer coming due, the cleanup) leaves the listener
\* registry as it was.
C16_RegistryOutlivesConnections ==
    [][connVars' # connVars => listenersRef' = listenersRef]_vars

\* C16's case: an event arriving on a replacement connection is delivered
\* to the two listeners registered for its kind.
C16_Witness ==
    /\ Delivered
    /\ eventSourceRef > 1
    /\ conns[eventSourceRef] = "open"
    /\ Len(Called) = 2
    /\ Called = RegisteredBefore

\* C17: at most one connection is not closed, and it is the one the hub
\* holds (the newest).
C17_OneLiveConnection ==
    \A c \in 1..Len(conns) :
        conns[c] # "closed" => c = eventSourceRef /\ c = Len(conns)

\* C17's case: the third connection is open after two were replaced.
C17_Witness ==
    /\ Len(conns) = 3
    /\ conns = <<"closed", "closed", "open">>
    /\ hub = "active"

\* C20: whenever isConnected is true, the connection the hub holds is open.
C20_ConnectedMeansOpen ==
    isConnected =>
        /\ eventSourceRef # 0
        /\ eventSourceRef = Len(conns)
        /\ conns[eventSourceRef] = "open"

(***************************************************************************)
(*                        Claims about the type guards                     *)
(***************************************************************************)

\* "Populated": present and not null.
Populated(v) == v \notin {"undefined", "null"}

\* C11: isTaskCompletedEvent(x) holds iff isTaskProgressEvent(x) holds and
\* x.eventType is 'complete'; isTaskErrorEvent(x) holds iff
\* isTaskProgressEvent(x) holds, x.eventType is 'error' and x.metadata.error
\* is populated.
C11_GuardsCharacterised ==
    /\ verdict.guard = "isTaskCompletedEvent" =>
          (Truthy(verdict.value) <=>
              /\ Truthy(IsTaskProgressEvent(decoded))
              /\ Prop(decoded, "eventType") = COMPLETE)
    /\ verdict.guard = "isTaskErrorEvent" =>
          (Truthy(verdict.value) <=>
              /\ Truthy(IsTaskProgressEvent(decoded))
              /\ Prop(decoded, "eventType") = ERROR
              /\ Populated(MetadataError(decoded)))

====
